---- MODULE Spec2Model ----
(***************************************************************************)
(* Stationary stochastic bandit environments of tf_agents:                 *)
(*   StationaryStochasticPyEnvironment        (fixed arm set, "fixed")     *)
(*   StationaryStochasticPerArmPyEnvironment  (per-arm features, "per_arm")*)
(* One environment instance is modelled: its constructor arguments (cfg),  *)
(* the stored attribute self._observation, and the outcome of the last     *)
(* call (returned value or raised error, and how often each user-supplied  *)
(* function was invoked during that call).                                 *)
(* Python indices are kept 0-based in values; sequences are 1-based.       *)
(***************************************************************************)
EXTENDS Integers, Sequences, FiniteSets, TLC

\* ---------------------------------------------------------------- bounds
MaxBatch == 2     \* batch_size ranges over 1..MaxBatch
MaxArms  == 2     \* len(reward_fns) / max_num_actions range over 1..MaxArms
NVals    == 3     \* number of distinct feature values a sampler draws from

\* Dimensions of the docstring example of the per-arm environment.
GlobalDim == 2
ArmDim    == 3

\* ---------------------------------------------------------------- errors
ErrBatch == "ValueError: Number of actions must match batch size."
ErrOuter == "ValueError: The outer dimension of the observations should match the batch size."
ErrIndex == "IndexError"
ErrStack == "ValueError: need at least one array to stack"
ErrCtxFn        == "raised by context_sampling_fn"
ErrRewardFn     == "raised by reward_fn"
ErrConstraintFn == "raised by constraint_fn"
ErrGlobalFn     == "raised by global_context_sampling_fn"
ErrArmFn        == "raised by arm_context_sampling_fn"
ErrNumActionsFn == "raised by num_actions_fn"

\* ------------------------------------------------- user-supplied functions
\* A deterministic reward/constraint function: the value it returns is kept
\* symbolic, as the pair (function, argument) it was produced from.
UserFn(name, i, x) == <<name, i, x>>

\* The sampling functions are generators over NVals feature values, started
\* at a seed that is chosen afresh for every call of the environment, so that
\* neighbouring rows and arm slots of one observation carry different values.
Seeds == 0..(NVals - 1)

\* Batches context_sampling_fn may return: any number of rows, the code never
\* re-validates the outer dimension after construction.
Context(s, r) == [i \in 1..r |-> <<(s + i - 1) % NVals>>]
Contexts(B) == {Context(s, r) : s \in Seeds, r \in 0..(B + 1)}

\* k-th (0-based) draw of a sampling function within one call.
GlobalSample(s, k) == [j \in 1..GlobalDim |-> (s + k + j - 1) % NVals]
ArmSample(s, k)    == [j \in 1..ArmDim |-> 10 + ((s + k + j - 1) % NVals)]

\* Integers num_actions_fn may return: below 1, in range, above the maximum.
RawCounts(M) == 0..(M + 1)
NumActionsSample(r, k, M) == (r + k) % (M + 2)

\* Action vectors: of the batch length with valid arm indices and one index
\* past the end, and shorter or longer ones with valid arm indices.
ActionVals(n) == 0..n
Actions(B, n) ==
  [1..B -> ActionVals(n)] \cup
  UNION {[1..l -> 0..(n - 1)] : l \in (0..(B + 1)) \ {B}}

\* ------------------------------------------------------------- numpy/python
Min2(a, b) == IF a < b THEN a ELSE b

\* zip(xs, ys): pairs up to the shorter argument.
Zip(xs, ys) == [j \in 1..Min2(Len(xs), Len(ys)) |-> <<xs[j], ys[j]>>]

\* seq[i] of Python for a non-negative index: in range or IndexError.
InRange(i, n) == 0 <= i /\ i < n

np_maximum(xs, c) == [b \in 1..Len(xs) |-> IF xs[b] > c THEN xs[b] ELSE c]

np_minimum_keep(xs, c) == xs

np_minimum(xs, c) == [b \in 1..Len(xs) |-> IF xs[b] < c THEN xs[b] ELSE c]

np_concatenate_swapped(a, b) == b \o a

np_concatenate(a, b) == a \o b

\* i-th (1-based) scalar of the row-major flattening of a list of d-vectors.
Flat(list, d, i) == list[((i - 1) \div d) + 1][((i - 1) % d) + 1]

\* np.reshape(list, (B, M, -1)): row-major refill, last axis inferred.
np_reshape(list, B, M) ==
  LET d == Len(list[1])
      last == (Len(list) * d) \div (B * M)
  IN [b \in 1..B |-> [m \in 1..M |-> [j \in 1..last |->
        Flat(list, d, ((b - 1) * M + (m - 1)) * last + j)]]]

\* ------------------------------------------------------------------- state
VARIABLES cfg, status, observation_spec, observation, result, calls,
          last_returned

vars == <<cfg, status, observation_spec, observation, result, calls,
          last_returned>>

\* observation, observation_spec, last_returned: <<>> while unset, <<x>> once set.
Stored(v) == Len(v) = 1

NoCalls ==
  [context_sampling_fn |-> 0,
   reward_fns |-> [i \in 1..cfg.num_reward_fns |-> 0],
   constraint_fns |-> [i \in 1..cfg.num_reward_fns |-> 0],
   global_context_sampling_fn |-> 0,
   arm_context_sampling_fn |-> 0,
   num_actions_fn |-> 0]

Returned(op, arg, value) ==
  [op |-> op, ok |-> TRUE, err |-> "", arg |-> arg, value |-> value]

Raised(op, arg, err) ==
  [op |-> op, ok |-> FALSE, err |-> err, arg |-> arg, value |-> <<>>]

FixedConfigs ==
  {[env |-> "fixed", batch_size |-> B, num_reward_fns |-> n,
    max_num_actions |-> n, constraint_fns |-> c, num_actions_fn |-> FALSE] :
     B \in 1..MaxBatch, n \in 1..MaxArms, c \in BOOLEAN}

PerArmConfigs ==
  {[env |-> "per_arm", batch_size |-> B, num_reward_fns |-> 1,
    max_num_actions |-> M, constraint_fns |-> FALSE, num_actions_fn |-> f] :
     B \in 1..MaxBatch, M \in 1..MaxArms, f \in BOOLEAN}

Init ==
  /\ cfg \in FixedConfigs \cup PerArmConfigs
  /\ status = "new"
  /\ observation_spec = <<>>
  /\ observation = <<>>
  /\ last_returned = <<>>
  /\ result = Returned("none", <<>>, <<>>)
  /\ calls = NoCalls

\* ------------------------------------------- StationaryStochasticPyEnvironment
\* Indices of the reward (and constraint) functions __init__ invokes.
PyEnv_example_fns_all(n) == 0..(n - 1)

PyEnv_example_fns(n) == {0}

ExampleCalls(n) == [i \in 1..n |-> IF (i - 1) \in PyEnv_example_fns(n) THEN 1 ELSE 0]

PyEnv_init ==
  /\ status = "new"
  /\ cfg.env = "fixed"
  /\ UNCHANGED <<cfg, observation, last_returned>>
  /\ LET n == cfg.num_reward_fns
         c0 == [NoCalls EXCEPT !.context_sampling_fn = 1]
         c1 == [c0 EXCEPT !.reward_fns = ExampleCalls(n)]
         c2 == [c1 EXCEPT !.constraint_fns = ExampleCalls(n)]
         fail(arg, err, c) ==
           /\ result' = Raised("construct", arg, err)
           /\ calls' = c
           /\ status' = "failed"
           /\ observation_spec' = <<>>
     IN \/ fail(<<>>, ErrCtxFn, c0)
        \/ \E example_observation \in Contexts(cfg.batch_size) :
             IF Len(example_observation) = 0
             THEN fail(example_observation, ErrIndex, c0)
             ELSE IF Len(example_observation) # cfg.batch_size
             THEN fail(example_observation, ErrOuter, c0)
             ELSE
               LET example_reward ==
                     UserFn("reward_fns", 0, example_observation[1])
                   example_constraint ==
                     UserFn("constraint_fns", 0, example_observation[1])
               IN \/ fail(example_observation, ErrRewardFn, c1)
                  \/ cfg.constraint_fns
                     /\ fail(example_observation, ErrConstraintFn, c2)
                  \/ /\ status' = "ready"
                     /\ observation_spec' =
                          <<[observation |-> <<Len(example_observation[1])>>]>>
                     /\ calls' = IF cfg.constraint_fns THEN c2 ELSE c1
                     /\ result' = Returned("construct", example_observation,
                          IF cfg.constraint_fns
                          THEN [reward |-> example_reward,
                                constraint |-> example_constraint]
                          ELSE [reward |-> example_reward])

PyEnv_observe ==
  /\ status = "ready"
  /\ cfg.env = "fixed"
  /\ UNCHANGED <<cfg, status, observation_spec>>
  /\ \/ /\ result' = Raised("observe", <<>>, ErrCtxFn)
        /\ calls' = [NoCalls EXCEPT !.context_sampling_fn = 1]
        /\ UNCHANGED <<observation, last_returned>>
     \/ \E sample \in Contexts(cfg.batch_size) :
          /\ observation' = <<sample>>
          /\ last_returned' = <<sample>>
          /\ result' = Returned("observe", <<>>, sample)
          /\ calls' = [NoCalls EXCEPT !.context_sampling_fn = 1]

\* len(action) != self.batch_size
PyEnv_count_mismatch_shorter(action, B) == Len(action) < B

PyEnv_count_mismatch(action, B) == Len(action) # B

PyEnv_rewards_first_fn(fns, action, obs) ==
  [j \in 1..Len(Zip(action, obs)) |-> UserFn(fns, 0, Zip(action, obs)[j][2])]

\* [fns[a](o) for a, o in zip(action, self._observation)]
PyEnv_rewards(fns, action, obs) ==
  [j \in 1..Len(Zip(action, obs)) |->
     UserFn(fns, Zip(action, obs)[j][1], Zip(action, obs)[j][2])]

\* Invocations of function i (0-based) among the first k list elements.
CountFn(action, k, n) ==
  [i \in 1..n |-> Cardinality({j \in 1..k : action[j] = i - 1})]

PyEnv_apply_action ==
  /\ status = "ready"
  /\ cfg.env = "fixed"
  /\ Stored(observation)
  /\ UNCHANGED <<cfg, status, observation_spec, observation, last_returned>>
  /\ \E action \in Actions(cfg.batch_size, cfg.num_reward_fns) :
       LET n == cfg.num_reward_fns
           obs == observation[1]
           len == Len(Zip(action, obs))
           bad == {j \in 1..len : ~InRange(action[j], n)}
           \* elements evaluated before the first failing subscript
           upto == IF bad = {} THEN len
                   ELSE (CHOOSE j \in bad : \A k \in bad : j <= k) - 1
           rcalls(k) == [NoCalls EXCEPT !.reward_fns = CountFn(action, k, n)]
           ccalls(k) == [rcalls(len) EXCEPT
                           !.constraint_fns = CountFn(action, k, n)]
           out(r, c) == /\ result' = r
                        /\ calls' = c
       IN IF PyEnv_count_mismatch(action, cfg.batch_size)
          THEN out(Raised("apply_action", action, ErrBatch), NoCalls)
          ELSE
            \/ \E k \in 1..upto :
                 out(Raised("apply_action", action, ErrRewardFn), rcalls(k))
            \/ /\ bad # {}
               /\ out(Raised("apply_action", action, ErrIndex), rcalls(upto))
            \/ /\ bad = {}
               /\ len = 0
               /\ out(Raised("apply_action", action, ErrStack), NoCalls)
            \/ /\ bad = {}
               /\ len > 0
               /\ IF cfg.constraint_fns
                  THEN \/ \E k \in 1..len :
                            out(Raised("apply_action", action, ErrConstraintFn),
                                ccalls(k))
                       \/ out(Returned("apply_action", action,
                                [reward |-> PyEnv_rewards("reward_fns", action, obs),
                                 constraint |->
                                   PyEnv_rewards("constraint_fns", action, obs)]),
                              ccalls(len))
                  ELSE out(Returned("apply_action", action,
                             PyEnv_rewards("reward_fns", action, obs)),
                           rcalls(len))

\* ------------------------------------ StationaryStochasticPerArmPyEnvironment
PerArm_init ==
  /\ status = "new"
  /\ cfg.env = "per_arm"
  /\ UNCHANGED <<cfg, observation, last_returned>>
  /\ LET M == cfg.max_num_actions
         c1 == [NoCalls EXCEPT !.global_context_sampling_fn = 1]
         c2 == [c1 EXCEPT !.arm_context_sampling_fn = 1]
         c3 == [c2 EXCEPT !.num_actions_fn = 1]
         fail(err, c) ==
           /\ result' = Raised("construct", <<>>, err)
           /\ calls' = c
           /\ status' = "failed"
           /\ observation_spec' = <<>>
     IN \/ fail(ErrGlobalFn, c1)
        \/ fail(ErrArmFn, c2)
        \/ cfg.num_actions_fn /\ fail(ErrNumActionsFn, c3)
        \/ \E s \in Seeds :
             LET global_shape == <<Len(GlobalSample(s, 0))>>
                 \* add_outer_dims_nest(from_array(arm sample), (max_num_actions,))
                 per_arm_shape == <<M>> \o <<Len(ArmSample(s, 0))>>
             IN /\ status' = "ready"
                /\ observation_spec' =
                     <<IF cfg.num_actions_fn
                       THEN [global |-> global_shape, per_arm |-> per_arm_shape,
                             num_actions |-> <<>>]
                       ELSE [global |-> global_shape, per_arm |-> per_arm_shape]>>
                /\ calls' = IF cfg.num_actions_fn THEN c3 ELSE c2
                /\ result' = Returned("construct", <<>>, <<>>)

\* range(self._batch_size * self._max_num_actions)
PerArm_num_arm_draws_one_per_row(B, M) == B

PerArm_num_arm_draws(B, M) == B * M

PerArm_has_num_actions_never(f) == FALSE

\* "if self._num_actions_fn:"; a function object is truthy, None is not.
PerArm_has_num_actions(f) == f

PerArm_observe ==
  /\ status = "ready"
  /\ cfg.env = "per_arm"
  /\ UNCHANGED <<cfg, status, observation_spec>>
  /\ LET B == cfg.batch_size
         M == cfg.max_num_actions
         ndraws == PerArm_num_arm_draws(B, M)
         g(k) == [NoCalls EXCEPT !.global_context_sampling_fn = k]
         a(k) == [g(B) EXCEPT !.arm_context_sampling_fn = k]
         n(k) == [a(ndraws) EXCEPT !.num_actions_fn = k]
     IN \/ \E k \in 1..B :
             /\ result' = Raised("observe", <<>>, ErrGlobalFn)
             /\ calls' = g(k)
             /\ UNCHANGED <<observation, last_returned>>
        \/ \E k \in 1..ndraws :
             /\ result' = Raised("observe", <<>>, ErrArmFn)
             /\ calls' = a(k)
             /\ UNCHANGED <<observation, last_returned>>
        \/ \E s \in Seeds :
             LET global_obs == [b \in 1..B |-> GlobalSample(s, b - 1)]
                 arm_list == [k \in 1..ndraws |-> ArmSample(s, k - 1)]
                 arm_obs == np_reshape(arm_list, B, M)
                 \* self._observation = {GLOBAL_KEY: ..., PER_ARM_KEY: ...}
                 first == [global |-> global_obs, per_arm |-> arm_obs]
             IN IF PerArm_has_num_actions(cfg.num_actions_fn)
                THEN \/ \E k \in 1..B :
                          /\ observation' = <<first>>
                          /\ result' = Raised("observe", <<>>, ErrNumActionsFn)
                          /\ calls' = n(k)
                          /\ UNCHANGED last_returned
                     \/ \E r \in RawCounts(M) :
                          LET raw == [b \in 1..B |-> NumActionsSample(r, b - 1, M)]
                              num_actions == np_minimum(np_maximum(raw, 1), M)
                              full == [global |-> global_obs,
                                       per_arm |-> arm_obs,
                                       num_actions |-> num_actions]
                          IN /\ observation' = <<full>>
                             /\ last_returned' = <<full>>
                             /\ result' = Returned("observe", raw, full)
                             /\ calls' = n(Len(raw))
                ELSE /\ observation' = <<first>>
                     /\ last_returned' = <<first>>
                     /\ result' = Returned("observe", <<>>, first)
                     /\ calls' = [g(Len(global_obs)) EXCEPT
                                    !.arm_context_sampling_fn = Len(arm_list)]

\* action.shape[0] != self.batch_size
PerArm_count_mismatch_shorter(action, B) == Len(action) < B

PerArm_count_mismatch(action, B) == Len(action) # B

PerArm_select_first_arm(per_arm, action, B) == [b \in 1..B |-> per_arm[b][1]]

\* self._observation[PER_ARM_KEY][batch_size_range, action, :]
PerArm_select(per_arm, action, B) == [b \in 1..B |-> per_arm[b][action[b] + 1]]

\* [reward_fn(np.concatenate((global_obs[b, :], arm_obs[b, :]))) for b in range]
PerArm_rewards(global_obs, arm_obs, B) ==
  [b \in 1..B |-> UserFn("reward_fn", 0, np_concatenate(global_obs[b], arm_obs[b]))]

PerArm_apply_action ==
  /\ status = "ready"
  /\ cfg.env = "per_arm"
  /\ Stored(observation)
  /\ UNCHANGED <<cfg, status, observation_spec, observation, last_returned>>
  /\ \E action \in Actions(cfg.batch_size, cfg.max_num_actions) :
       LET B == cfg.batch_size
           M == cfg.max_num_actions
           global_obs == observation[1].global
           rcalls(k) == [NoCalls EXCEPT !.reward_fns = <<k>>]
       IN IF PerArm_count_mismatch(action, B)
          THEN /\ result' = Raised("apply_action", action, ErrBatch)
               /\ calls' = NoCalls
          ELSE IF \E b \in 1..B : ~InRange(action[b], M)
          THEN /\ result' = Raised("apply_action", action, ErrIndex)
               /\ calls' = NoCalls
          ELSE
            LET arm_obs == PerArm_select(observation[1].per_arm, action, B)
                reward == PerArm_rewards(global_obs, arm_obs, B)
            IN \/ \E k \in 1..B :
                    /\ result' = Raised("apply_action", action, ErrRewardFn)
                    /\ calls' = rcalls(k)
               \/ /\ result' = Returned("apply_action", action, reward)
                  /\ calls' = rcalls(Len(reward))

Next ==
  \/ PyEnv_init
  \/ PyEnv_observe
  \/ PyEnv_apply_action
  \/ PerArm_init
  \/ PerArm_observe
  \/ PerArm_apply_action

Spec == Init /\ [][Next]_vars

\* ------------------------------------------------------------ properties
IsCall(op) == result.op = op
Succeeded(op) == result.op = op /\ result.ok
AllZero(f) == \A i \in DOMAIN f : f[i] = 0

\* C1: in both environments apply_action raises the "Number of actions must
\* match batch size." ValueError whenever the number of supplied actions
\* differs from batch_size, whatever observation is stored and whether the
\* action vector is shorter or longer.
C1_CountMismatchRaises ==
  (IsCall("apply_action") /\ Len(result.arg) # cfg.batch_size)
    => (~result.ok /\ result.err = ErrBatch)

C1_Witness ==
  /\ cfg.env = "per_arm"
  /\ IsCall("apply_action")
  /\ Len(result.arg) > cfg.batch_size
  /\ result.err = ErrBatch

\* C2: with an arm-count function configured, every entry of the stored and of
\* the returned observation['num_actions'] lies in 1..max_num_actions: a raw
\* value below 1 becomes 1, one above max_num_actions becomes max_num_actions,
\* one in range is kept.
C2_ClampingLaw ==
  (cfg.env = "per_arm" /\ cfg.num_actions_fn) =>
    /\ (Stored(observation) /\ "num_actions" \in DOMAIN observation[1]) =>
         \A b \in DOMAIN observation[1].num_actions :
           observation[1].num_actions[b] \in 1..cfg.max_num_actions
    /\ Succeeded("observe") =>
         /\ Len(result.value.num_actions) = Len(result.arg)
         /\ \A b \in 1..Len(result.arg) :
              result.value.num_actions[b] =
                IF result.arg[b] < 1 THEN 1
                ELSE IF result.arg[b] > cfg.max_num_actions
                     THEN cfg.max_num_actions
                     ELSE result.arg[b]

C2_Witness ==
  /\ cfg.env = "per_arm"
  /\ cfg.num_actions_fn
  /\ Succeeded("observe")
  /\ \E b \in 1..Len(result.arg) : result.arg[b] < 1
  /\ \E b \in 1..Len(result.arg) : result.arg[b] > cfg.max_num_actions

\* C3: fixed-arm apply_action with batch_size actions and a stored observation
\* of batch_size rows returns batch_size entries, entry b being
\* reward_fns[action[b]](observation[b]); with constraint functions configured
\* it returns a mapping with exactly the keys reward and constraint, built the
\* same way from reward_fns and constraint_fns; otherwise the plain rewards.
C3_FixedArmRewards ==
  (/\ cfg.env = "fixed"
   /\ Succeeded("apply_action")
   /\ Len(result.arg) = cfg.batch_size
   /\ Len(observation[1]) = cfg.batch_size)
    => LET expected(fns) ==
             [b \in 1..cfg.batch_size |->
                UserFn(fns, result.arg[b], observation[1][b])]
       IN IF cfg.constraint_fns
          THEN /\ DOMAIN result.value = {"reward", "constraint"}
               /\ result.value.reward = expected("reward_fns")
               /\ result.value.constraint = expected("constraint_fns")
          ELSE result.value = expected("reward_fns")

C3_Witness ==
  /\ cfg.env = "fixed"
  /\ cfg.constraint_fns
  /\ cfg.batch_size = 2
  /\ Succeeded("apply_action")
  /\ Len(observation[1]) = 2
  /\ result.arg = <<1, 0>>

\* C4: per-arm apply_action with batch_size actions, each in
\* 0..max_num_actions-1, returns batch_size entries, entry b being reward_fn
\* applied to the stored global row b followed by the stored per-arm row
\* [b, action[b]].
C4_PerArmRewards ==
  (cfg.env = "per_arm" /\ Succeeded("apply_action")) =>
    /\ Len(result.arg) = cfg.batch_size
    /\ Len(result.value) = cfg.batch_size
    /\ \A b \in 1..cfg.batch_size :
         result.value[b] =
           UserFn("reward_fn", 0,
                  observation[1].global[b] \o
                    observation[1].per_arm[b][result.arg[b] + 1])

C4_Witness ==
  /\ cfg.env = "per_arm"
  /\ cfg.batch_size = 2
  /\ cfg.max_num_actions = 2
  /\ Succeeded("apply_action")
  /\ result.arg = <<1, 0>>

\* C5: constructing the fixed-arm environment raises the "outer dimension"
\* ValueError exactly when the example context's outer dimension differs from
\* batch_size, an example with zero rows included.
C5_OuterDimensionError ==
  (cfg.env = "fixed" /\ IsCall("construct") /\ result.err # ErrCtxFn)
    => ((Len(result.arg) # cfg.batch_size) <=> (result.err = ErrOuter))

\* C6: every per-arm observe() that returns gives, and stores, a mapping with
\* exactly the keys of the derived observation spec: global with batch_size
\* rows, per_arm of shape (batch_size, max_num_actions, arm_dim), and
\* num_actions with batch_size entries iff an arm-count function is configured.
C6_ObservationMatchesSpec ==
  (cfg.env = "per_arm" /\ Succeeded("observe")) =>
    LET o == result.value
        sp == observation_spec[1]
        B == cfg.batch_size
    IN /\ observation = <<o>>
       /\ DOMAIN o = DOMAIN sp
       /\ ("num_actions" \in DOMAIN o) <=> cfg.num_actions_fn
       /\ Len(o.global) = B
       /\ \A b \in 1..B : <<Len(o.global[b])>> = sp.global
       /\ Len(o.per_arm) = B
       /\ sp.per_arm = <<cfg.max_num_actions, ArmDim>>
       /\ \A b \in 1..B :
            /\ Len(o.per_arm[b]) = cfg.max_num_actions
            /\ \A m \in 1..cfg.max_num_actions : Len(o.per_arm[b][m]) = ArmDim
       /\ ("num_actions" \in DOMAIN o) => Len(o.num_actions) = B

C6_Witness ==
  /\ cfg.env = "per_arm"
  /\ cfg.num_actions_fn
  /\ cfg.batch_size = 2
  /\ cfg.max_num_actions = 2
  /\ Succeeded("observe")
  /\ \E b \in 1..2 : result.value.num_actions[b] < 2

\* What apply_action returns when it reads observation o.
RewardsFrom(o, action) ==
  IF cfg.env = "fixed"
  THEN IF cfg.constraint_fns
       THEN [reward |-> PyEnv_rewards("reward_fns", action, o),
             constraint |-> PyEnv_rewards("constraint_fns", action, o)]
       ELSE PyEnv_rewards("reward_fns", action, o)
  ELSE PerArm_rewards(o.global,
                      PerArm_select(o.per_arm, action, cfg.batch_size),
                      cfg.batch_size)

\* C7: an observe() that returns overwrites the stored observation with what
\* it returns, and apply_action computes its rewards from the observation
\* returned by the most recent observe() only.
C7_RewardsFromLastReturned ==
  /\ Succeeded("observe") => observation = <<result.value>>
  /\ (Succeeded("apply_action") /\ Stored(last_returned)) =>
       result.value = RewardsFrom(last_returned[1], result.arg)

\* C8: a failed observe() or apply_action() leaves the stored observation as
\* it was before the call.
C8_FailedCallKeepsObservation ==
  [][((result'.op = "observe" \/ result'.op = "apply_action") /\ ~result'.ok)
       => observation' = observation]_vars

\* C9: a per-arm observe() that returns has invoked the global sampler
\* batch_size times, the arm sampler batch_size * max_num_actions times and the
\* arm-count function batch_size times if configured, else never; a fixed-arm
\* observe() has invoked the context sampler once; neither has invoked a
\* reward or constraint function.
C9_ObserveInvocations ==
  Succeeded("observe") =>
    /\ AllZero(calls.reward_fns)
    /\ AllZero(calls.constraint_fns)
    /\ IF cfg.env = "per_arm"
       THEN /\ calls.context_sampling_fn = 0
            /\ calls.global_context_sampling_fn = cfg.batch_size
            /\ calls.arm_context_sampling_fn =
                 cfg.batch_size * cfg.max_num_actions
            /\ calls.num_actions_fn =
                 IF cfg.num_actions_fn THEN cfg.batch_size ELSE 0
       ELSE /\ calls.context_sampling_fn = 1
            /\ calls.global_context_sampling_fn = 0
            /\ calls.arm_context_sampling_fn = 0
            /\ calls.num_actions_fn = 0

C9_Witness ==
  /\ cfg.env = "per_arm"
  /\ cfg.num_actions_fn
  /\ cfg.batch_size = 2
  /\ cfg.max_num_actions = 2
  /\ Succeeded("observe")
  /\ result.value.num_actions = <<1, 2>>

PerArmConstructionCalls ==
  /\ calls.context_sampling_fn = 0
  /\ AllZero(calls.reward_fns)
  /\ AllZero(calls.constraint_fns)
  /\ calls.global_context_sampling_fn = 1
  /\ calls.arm_context_sampling_fn = 1
  /\ calls.num_actions_fn = IF cfg.num_actions_fn THEN 1 ELSE 0

\* C10 as stated: a successful fixed-arm construction invokes the context
\* sampler once and each reward function and, when configured, each
\* constraint function exactly once; a successful per-arm construction
\* invokes the global, arm and (when configured) arm-count function once each.
C10_EachFunctionOnce ==
  Succeeded("construct") =>
    IF cfg.env = "fixed"
    THEN /\ calls.context_sampling_fn = 1
         /\ \A i \in DOMAIN calls.reward_fns : calls.reward_fns[i] = 1
         /\ cfg.constraint_fns =>
              \A i \in DOMAIN calls.constraint_fns : calls.constraint_fns[i] = 1
    ELSE PerArmConstructionCalls

\* C10 amended: a successful fixed-arm construction invokes the context
\* sampler once, the first reward function and, when configured, the first
\* constraint function once each on the first row of the example context, and
\* no other reward or constraint function; the per-arm part is as stated.
C10_FirstFunctionOnce ==
  Succeeded("construct") =>
    IF cfg.env = "fixed"
    THEN /\ calls.context_sampling_fn = 1
         /\ \A i \in DOMAIN calls.reward_fns :
              calls.reward_fns[i] = IF i = 1 THEN 1 ELSE 0
         /\ \A i \in DOMAIN calls.constraint_fns :
              calls.constraint_fns[i] =
                IF i = 1 /\ cfg.constraint_fns THEN 1 ELSE 0
         /\ result.value.reward = UserFn("reward_fns", 0, result.arg[1])
         /\ cfg.constraint_fns =>
              result.value.constraint =
                UserFn("constraint_fns", 0, result.arg[1])
         /\ calls.global_context_sampling_fn = 0
         /\ calls.arm_context_sampling_fn = 0
         /\ calls.num_actions_fn = 0
    ELSE PerArmConstructionCalls

C10_Witness ==
  /\ cfg.env = "fixed"
  /\ cfg.num_reward_fns = 2
  /\ cfg.constraint_fns
  /\ Succeeded("construct")
====
